---- MODULE Spec2Model ----
(***************************************************************************)
(* A model of the tiled HTTP server: the routes of                         *)
(* src/tiled/server/router.py and of src/server.py.                        *)
(*                                                                         *)
(* Strings that the code takes apart (entry paths) are sequences of        *)
(* one-character strings.  An Accept header is the sequence of the media   *)
(* types it lists; the empty sequence is an absent header.  A call that    *)
(* may raise returns a record whose field exc names the exception          *)
(* ("none" when it returns normally).  A response is a record with the     *)
(* HTTP status; status 500 is an exception that left the handler           *)
(* untranslated.                                                           *)
(***************************************************************************)
EXTENDS Integers, Sequences, FiniteSets, TLC

VARIABLES
    tree,        \* the catalog tree served: normalized path -> entry
    req,         \* the last request handled by a data or listing route
    resp,        \* the response it was given
    walk,        \* a client paging through /entries
    tokens,      \* the token store: token -> username
    minted,      \* number of tokens new_token has generated
    rq,          \* the token requests: position, arguments and response
    loop,        \* the request whose coroutine holds the event loop (0: none)
    registry,    \* name_to_query_type, in insertion order
    signature    \* the parameters of the search route, once declared

vars == <<tree, req, resp, walk, tokens, minted, rq, loop, registry, signature>>

-----------------------------------------------------------------------------
(* Bounds of the model.                                                    *)

MaxExtent == 3        \* size of one dimension
MaxChunk == 2         \* chunk size along one dimension
MaxCoord == 3         \* largest coordinate of a requested block index
MaxIdx == 2           \* largest integer of a requested slice
MaxChildren == 3      \* children of the listed catalog
MaxOffset == 4        \* largest page[offset] requested
MaxLimit == 4         \* largest page[limit] requested
MaxRequests == 3      \* token requests issued
MaxTokens == 2        \* token values a delete request may present
MaxFields == 2        \* fields of one query descriptor
MaxDescriptors == 2   \* descriptors registered

-----------------------------------------------------------------------------
(* Helpers on sequences and integers.                                      *)

Min(a, b) == IF a < b THEN a ELSE b
Max(a, b) == IF a > b THEN a ELSE b

SeqsUpTo(S, n) == UNION {[1..k -> S] : k \in 0..n}

Last(s) == s[Len(s)]
Front(s) == SubSeq(s, 1, Len(s) - 1)

-----------------------------------------------------------------------------
(* Responses.                                                              *)

NoBody == [kind |-> "none", items |-> <<>>, total |-> 0, block |-> <<>>, slice |-> <<>>]

\* raise HTTPException(status_code=..., detail=...)
HTTPException(status, detail) ==
    [status |-> status, detail |-> detail, supported |-> <<>>, media |-> <<>>, id |-> <<>>, body |-> NoBody]

\* An exception that no except clause of the handler translates.
Fault(exc) ==
    [status |-> 500, detail |-> exc, supported |-> <<>>, media |-> <<>>, id |-> <<>>, body |-> NoBody]

Ok(media, id, body) ==
    [status |-> 200, detail |-> "", supported |-> <<>>, media |-> media, id |-> id, body |-> body]

\* raise HTTPException(status_code=406, detail=", ".join(err.supported_types))
NotAcceptable(supported) ==
    [status |-> 406, detail |-> "supported types", supported |-> supported, media |-> <<>>, id |-> <<>>, body |-> NoBody]

NoResponse == HTTPException(0, "")
NoRequest == [route |-> "none"]

-----------------------------------------------------------------------------
(* Entry paths and the catalog tree.                                       *)

\* str.rstrip("/")
RECURSIVE rstrip(_)
rstrip(p) ==
    IF Len(p) > 0 /\ Last(p) = "/" THEN rstrip(Front(p)) ELSE p

\* str.split("/"): the segments between separators ("" gives one empty segment)
RECURSIVE split(_)
split(p) ==
    IF \E i \in 1..Len(p) : p[i] = "/"
    THEN LET i == CHOOSE j \in 1..Len(p) : p[j] = "/" /\ \A k \in 1..(j - 1) : p[k] # "/"
         IN  <<SubSeq(p, 1, i - 1)>> \o split(SubSeq(p, i + 1, Len(p)))
    ELSE <<p>>

\* *_, key = path.rpartition("/") and *_, key = path.rsplit("/", 1): the last segment
LastSegment(p) == Last(split(p))

Catalog(keys) == [kind |-> "catalog", keys |-> keys, shape |-> <<>>, chunks |-> <<>>]
Reader(shape, chunks) == [kind |-> "reader", keys |-> <<>>, shape |-> shape, chunks |-> chunks]

\* The tree served: a root catalog whose children rootKeys are data sources
\* of one geometry, but for "b", a sub-catalog holding the data source "a".
MakeTree(rootKeys, shape, chunks) ==
    LET top == {<<k>> : k \in {rootKeys[i] : i \in 1..Len(rootKeys)}}
        sub == IF <<<<"b">>>> \in top THEN {<< <<"b">>, <<"a">> >>} ELSE {}
    IN  [p \in {<<>>} \cup top \cup sub |->
            IF p = <<>> THEN Catalog(rootKeys)
            ELSE IF p = <<<<"b">>>> THEN Catalog(<< <<"a">> >>)
            ELSE Reader(shape, chunks)]

\* Descend from the root one segment at a time: a missing key, or a
\* non-catalog before the path is exhausted, is no entry.
RECURSIVE Descend(_, _, _)
Descend(t, at, segs) ==
    IF segs = <<>> THEN [exc |-> "none", entry |-> t[at]]
    ELSE IF t[at].kind # "catalog" THEN [exc |-> "KeyError", entry |-> Catalog(<<>>)]
    ELSE IF \A i \in 1..Len(t[at].keys) : t[at].keys[i] # Head(segs)
         THEN [exc |-> "KeyError", entry |-> Catalog(<<>>)]
    ELSE Descend(t, Append(at, Head(segs)), Tail(segs))

\* get_entry(path) of server_utils: trailing separators are stripped, the
\* empty path is the root, a path to nothing raises KeyError.
get_entry(t, path) ==
    LET p == rstrip(path)
    IN  IF p = <<>> THEN [exc |-> "none", entry |-> t[<<>>]]
        ELSE Descend(t, <<>>, split(p))

\* The entry dependency of core: the entry at the path, or NoEntry.
entry(t, path) ==
    LET e == get_entry(t, path)
    IN  IF e.exc = "none" THEN e ELSE [exc |-> "NoEntry", entry |-> e.entry]

\* The reader dependency of core: the entry, which must be a data source.
reader(t, path) ==
    LET e == entry(t, path)
    IN  IF e.exc # "none" THEN e
        ELSE IF e.entry.kind # "reader" THEN [exc |-> "WrongTypeForRoute", entry |-> e.entry]
        ELSE e

-----------------------------------------------------------------------------
(* Block and slice addressing.                                             *)

\* The chunk sizes along one dimension of extent size cut by chunk:
\* full chunks and then the remainder.
RECURSIVE ChunkLayout(_, _)
ChunkLayout(size, chunk) ==
    IF size <= 0 THEN <<>>
    ELSE <<Min(size, chunk)>> \o ChunkLayout(size - chunk, chunk)

\* The number of blocks along dimension d.
NumBlocks(e, d) == Len(ChunkLayout(e.shape[d], e.chunks[d]))

IndexError == [exc |-> "IndexError", extent |-> <<>>, region |-> <<>>]
KeyError == [exc |-> "KeyError", extent |-> <<>>, region |-> <<>>]

\* 0, 1, ..., n - 1
Upto(n) == [i \in 1..n |-> i - 1]

RECURSIVE Sum(_)
Sum(s) == IF s = <<>> THEN 0 ELSE Head(s) + Sum(Tail(s))

\* array.blocks[index] with a tuple of integers: region gives, for each
\* dimension, the blocks selected along it, extent the size of the result.
\* IndexError on too many indices or a coordinate beyond the blocks; fewer
\* indices than dimensions select every block along the rest.
Blocks(shape, chunks, index) ==
    IF Len(index) > Len(shape) THEN IndexError
    ELSE IF \E d \in 1..Len(index) : index[d] >= Len(ChunkLayout(shape[d], chunks[d]))
         THEN IndexError
    ELSE [exc |-> "none",
          extent |-> [d \in 1..Len(shape) |->
                        IF d <= Len(index)
                        THEN ChunkLayout(shape[d], chunks[d])[index[d] + 1]
                        ELSE shape[d]],
          region |-> [d \in 1..Len(shape) |->
                        IF d <= Len(index) THEN <<index[d]>>
                        ELSE Upto(Len(ChunkLayout(shape[d], chunks[d])))]]

\* array.blocks[index] with a list of integers: the list is one index, a
\* fancy index along the first dimension, which selects the blocks it
\* lists there and every block along the other dimensions.
BlocksList(shape, chunks, index) ==
    IF \E k \in 1..Len(index) : index[k] >= Len(ChunkLayout(shape[1], chunks[1]))
    THEN IndexError
    ELSE [exc |-> "none",
          extent |-> [d \in 1..Len(shape) |->
                        IF d = 1
                        THEN Sum([k \in 1..Len(index) |->
                                    ChunkLayout(shape[1], chunks[1])[index[k] + 1]])
                        ELSE shape[d]],
          region |-> [d \in 1..Len(shape) |->
                        IF d = 1 THEN index
                        ELSE Upto(Len(ChunkLayout(shape[d], chunks[d])))]]

All == [all |-> TRUE, idx |-> 0]
Idx(i) == [all |-> FALSE, idx |-> i]

\* array[slice]: an integer beyond the extent, or more components than
\* dimensions, raises IndexError.
GetItem(extent, slice) ==
    IF Len(slice) > Len(extent) THEN "IndexError"
    ELSE IF \E d \in 1..Len(slice) : ~slice[d].all /\ slice[d].idx >= extent[d]
         THEN "IndexError"
    ELSE "none"

\* The named components of a labelled data source.
Variables == {"temp"}
Coords == {"time"}

\* reader.read_block(block) on an array or variable.
read_block(e, block) == Blocks(e.shape, e.chunks, block)

\* reader.read_block(block, coord) on a data array: the block of the array,
\* or of its coordinate coord; an unknown coordinate raises KeyError.
read_block_coord(e, block, coord) ==
    IF coord = "None" THEN Blocks(e.shape, e.chunks, block)
    ELSE IF coord \notin Coords THEN KeyError
    ELSE Blocks(SubSeq(e.shape, 1, 1), SubSeq(e.chunks, 1, 1), block)

\* reader.read_block(variable, block, coord) on a dataset: an unknown
\* variable, or an unknown coordinate of the variable, raises KeyError.
read_block_var(e, variable, block, coord) ==
    IF variable \notin Variables THEN KeyError
    ELSE read_block_coord(e, block, coord)

-----------------------------------------------------------------------------
(* Content negotiation and serialization.                                  *)

OctetStream == "application/octet-stream"
Wildcard == "*/*"

\* The media types an array can be serialized to, and an entry listing.
ArrayMediaTypes == <<OctetStream, "application/json">>
EntryMediaTypes == <<"application/json", "application/x-msgpack">>

Range(s) == {s[i] : i \in 1..Len(s)}

\* The first acceptable type that is supported, the wildcard standing for
\* the default; "" when none is.  An absent header accepts the default.
RECURSIVE Negotiate(_, _, _)
Negotiate(accept, supported, default) ==
    IF accept = <<>> THEN ""
    ELSE LET m == IF Head(accept) = Wildcard THEN default ELSE Head(accept)
         IN  IF m \in Range(supported) THEN m
             ELSE Negotiate(Tail(accept), supported, default)

\* The array served: the blocks it is made of and the slice taken of it.
ArrayBody(region, slice) ==
    [kind |-> "array", items |-> <<>>, total |-> 0, block |-> region, slice |-> slice]

\* construct_array_response(array, request.headers) of core
construct_array_response(body, accept) ==
    LET m == Negotiate(IF accept = <<>> THEN <<OctetStream>> ELSE accept,
                       ArrayMediaTypes, OctetStream)
    IN  IF m = "" THEN [exc |-> "UnsupportedMediaTypes", resp |-> NotAcceptable(ArrayMediaTypes)]
        ELSE [exc |-> "none", resp |-> Ok(<<m>>, <<>>, body)]

\* json_or_msgpack(request.headers, content) of core
json_or_msgpack(accept, id, body) ==
    LET m == Negotiate(IF accept = <<>> THEN <<"application/json">> ELSE accept,
                       EntryMediaTypes, "application/json")
    IN  IF m = "" THEN [exc |-> "UnsupportedMediaTypes", resp |-> NotAcceptable(EntryMediaTypes)]
        ELSE [exc |-> "none", resp |-> Ok(<<m>>, id, body)]

\* serialize_array(media_type, array) of server_utils: the header value it
\* is handed must be one supported media type.
serialize_array(media_type, body) ==
    IF Len(media_type) = 1 /\ media_type[1] \in Range(ArrayMediaTypes)
    THEN [exc |-> "none", resp |-> Ok(media_type, <<>>, body)]
    ELSE [exc |-> "UnsupportedMediaTypes", resp |-> NoResponse]

\* A dependency that raised answers the request before the handler runs.
DependencyResponse(r) ==
    IF r.exc = "NoEntry" THEN HTTPException(404, "No such entry.")
    ELSE HTTPException(404, "This is not a Reader.")

-----------------------------------------------------------------------------
(* The array routes of router.py.                                          *)

BlockIndexOutOfRange == HTTPException(422, "Block index out of range")

\* except UnsupportedMediaTypes: raise HTTPException(status_code=406, ...)
ArrayResponse(body, accept) ==
    LET c == construct_array_response(body, accept)
    IN  IF c.exc = "UnsupportedMediaTypes" THEN NotAcceptable(c.resp.supported)
        ELSE c.resp

\* except IndexError of the block routes
IndexErrorResponse(exc) ==
    IF exc = "IndexError" THEN BlockIndexOutOfRange ELSE Fault(exc)

\* The try block shared by the block routes: array = read_block(...);
\* if slice: array = array[slice]
Sliced(b, slice) ==
    IF b.exc # "none" THEN b.exc
    ELSE IF slice # <<>> THEN GetItem(b.extent, slice)
    ELSE "none"

tile_array(t, path, block, slice, accept) ==
    LET r == reader(t, path)
    IN  IF r.exc # "none" THEN DependencyResponse(r)
        ELSE LET b == read_block(r.entry, block)
                 exc == Sliced(b, slice)
             IN  IF exc # "none" THEN IndexErrorResponse(exc)
                 ELSE ArrayResponse(ArrayBody(b.region, slice), accept)

tile_variable(t, path, block, slice, accept) ==
    LET r == reader(t, path)
    IN  IF r.exc # "none" THEN DependencyResponse(r)
        ELSE LET b == read_block(r.entry, block)
                 exc == Sliced(b, slice)
             IN  IF exc # "none" THEN IndexErrorResponse(exc)
                 ELSE ArrayResponse(ArrayBody(b.region, slice), accept)

\* reader.read() is the whole array: every block of it
full_array(t, path, slice, accept) ==
    LET r == reader(t, path)
    IN  IF r.exc # "none" THEN DependencyResponse(r)
        ELSE LET b == Blocks(r.entry.shape, r.entry.chunks, <<>>)
                 exc == Sliced(b, slice)
             IN  IF exc # "none" THEN IndexErrorResponse(exc)
                 ELSE ArrayResponse(ArrayBody(b.region, slice), accept)

\* except KeyError: if coord is not None: 422 No such coordinate, else: raise
tile_data_array(t, path, block, coord, slice, accept) ==
    LET r == reader(t, path)
    IN  IF r.exc # "none" THEN DependencyResponse(r)
        ELSE LET b == read_block_coord(r.entry, block, coord)
                 exc == Sliced(b, slice)
             IN  IF exc = "IndexError" THEN BlockIndexOutOfRange
                 ELSE IF exc = "KeyError"
                      THEN IF coord # "None"
                           THEN [HTTPException(422, "No such coordinate") EXCEPT !.id = <<coord>>]
                           ELSE Fault("KeyError")
                 ELSE ArrayResponse(ArrayBody(b.region, slice), accept)

\* except KeyError: if coord is None: 422 No such variable; 422 No such coordinate
tile_dataset(t, path, variable, block, coord, slice, accept) ==
    LET r == reader(t, path)
    IN  IF r.exc # "none" THEN DependencyResponse(r)
        ELSE LET b == read_block_var(r.entry, variable, block, coord)
                 exc == Sliced(b, slice)
             IN  IF exc = "IndexError" THEN BlockIndexOutOfRange
                 ELSE IF exc = "KeyError"
                      THEN IF coord = "None"
                           THEN [HTTPException(422, "No such variable") EXCEPT !.id = <<variable>>]
                           ELSE [HTTPException(422, "No such coordinate") EXCEPT !.id = <<coord>>]
                 ELSE ArrayResponse(ArrayBody(b.region, slice), accept)

-----------------------------------------------------------------------------
(* The block route of server.py.                                           *)

\* media_type = request.headers.get("Accept", "application/octet-stream");
\* if media_type == "*/*": media_type = "application/octet-stream"
BlobMediaType(accept) ==
    IF accept = <<>> THEN <<OctetStream>>
    ELSE IF accept = <<Wildcard>> THEN <<OctetStream>>
    ELSE accept

\* What the text of a block parameter can be: a tuple ("0,0", "(0,0)") or a
\* list ("[0,0]") of integers, text that literal_eval refuses ("[0,"), or a
\* literal that is no tuple or list of integers ("0", "'a'", "[0.5]").
Forms == {"tuple", "list"}
Malformed == {"unparsable", "not_index"}

\* blocks is what literal_eval made of the parameter, checked to be a tuple
\* or a list of integers and handed on as it is.
blob(t, path, form, blocks, accept) ==
    LET e == get_entry(t, path)
    IN  IF form = "unparsable" THEN HTTPException(400, "Could not parse")
        ELSE IF form = "not_index" THEN HTTPException(400, "Could not parse as an index")
        ELSE IF e.exc = "KeyError" THEN HTTPException(404, "No such entry.")
        ELSE IF e.entry.kind # "reader" THEN Fault("AttributeError")
        ELSE LET b == IF form = "list"
                      THEN BlocksList(e.entry.shape, e.entry.chunks, blocks)
                      ELSE Blocks(e.entry.shape, e.entry.chunks, blocks)
             IN  IF b.exc = "IndexError" THEN BlockIndexOutOfRange
                 ELSE LET c == serialize_array(BlobMediaType(accept), ArrayBody(b.region, <<>>))
                      IN  IF c.exc # "none" THEN Fault(c.exc) ELSE c.resp

-----------------------------------------------------------------------------
(* Requests, and the state outside the part a specification exercises.     *)

Request(route, path, block, slice, accept, variable, coord, offset, limit) ==
    [route |-> route, path |-> path, block |-> block, slice |-> slice,
     accept |-> accept, variable |-> variable, coord |-> coord,
     offset |-> offset, limit |-> limit, form |-> "tuple"]

NoWalk == [active |-> FALSE, size |-> 0, offset |-> 0, collected |-> <<>>, total |-> 0]
Undeclared == [state |-> "undeclared", params |-> <<>>]

NoToken == tokens = <<>> /\ minted = 0 /\ rq = <<>> /\ loop = 0
NoSearch == registry = <<>> /\ signature = Undeclared
NoData == req = NoRequest /\ resp = NoResponse /\ walk = NoWalk

tokenVars == <<tokens, minted, rq, loop>>
searchVars == <<registry, signature>>

\* The dimensionalities of the data sources modelled.
Ranks == {1, 2}

Geometries ==
    UNION {[shape : [1..n -> 1..MaxExtent], chunks : [1..n -> 1..MaxChunk]] : n \in Ranks}

BlockIndexes == UNION {[1..n -> 0..MaxCoord] : n \in {0} \cup Ranks}

Slices == {<<>>} \cup {<<c>> : c \in {All} \cup {Idx(i) : i \in 0..MaxIdx}}

RootKeys == << <<"a">>, <<"b">> >>

-----------------------------------------------------------------------------
(* SpecBlock: block requests against data sources of every geometry.       *)

BlockPaths == {<<"a">>, <<"b">>, <<"c">>}
BlockAccepts == {<<>>, <<"application/unknown">>}

InitBlock ==
    /\ \E g \in Geometries : tree = MakeTree(RootKeys, g.shape, g.chunks)
    /\ NoData /\ NoToken /\ NoSearch

\* The response is sent and the request is over.
Reply ==
    /\ req # NoRequest
    /\ req' = NoRequest
    /\ resp' = NoResponse
    /\ UNCHANGED <<tree, walk, tokenVars, searchVars>>

\* The coordinates a parameter of the given form carries.
IndexesOf(form, Indexes) == IF form \in Malformed THEN {<<>>} ELSE Indexes

\* Depends(reader), Depends(block), Depends(slice_) are resolved in this
\* order before tile_array runs; the block dependency reads "i,j,..." as a
\* tuple of integers and answers malformed text with "bad request".
BlockDependency(t, path, form, block, slice, accept) ==
    LET r == reader(t, path)
    IN  IF r.exc # "none" THEN DependencyResponse(r)
        ELSE IF form \in Malformed THEN HTTPException(400, "Malformed block index")
        ELSE tile_array(t, path, block, slice, accept)

TileArray(Paths, Params, Indexes, Slcs, Accepts) ==
    \E path \in Paths, form \in Params, slice \in Slcs, accept \in Accepts :
      \E block \in IndexesOf(form, Indexes) :
        /\ req = NoRequest
        /\ req' = [Request("tile_array", path, block, slice, accept, "", "None", 0, 0)
                      EXCEPT !.form = form]
        /\ resp' = BlockDependency(tree, path, form, block, slice, accept)
        /\ UNCHANGED <<tree, walk, tokenVars, searchVars>>

Blob(Paths, Params, Indexes, Accepts) ==
    \E path \in Paths, form \in Params, accept \in Accepts :
      \E block \in IndexesOf(form, Indexes) :
        /\ req = NoRequest
        /\ req' = [Request("blob", path, block, <<>>, accept, "", "None", 0, 0)
                      EXCEPT !.form = form]
        /\ resp' = blob(tree, path, form, block, accept)
        /\ UNCHANGED <<tree, walk, tokenVars, searchVars>>

NextBlock ==
    \/ TileArray(BlockPaths, {"tuple", "unparsable"}, BlockIndexes, Slices, BlockAccepts)
    \/ Blob(BlockPaths, Forms \cup Malformed, BlockIndexes, BlockAccepts)
    \/ Reply

SpecBlock == InitBlock /\ [][NextBlock]_vars

-----------------------------------------------------------------------------
(* C1: block index range.                                                  *)

Ceil(s, c) == (s + c - 1) \div c

Source == tree[<<req.path>>]

CoordOutOfRange ==
    \E d \in 1..Len(req.block) : req.block[d] >= Ceil(Source.shape[d], Source.chunks[d])

\* C1: a block fetch (tile_array, blob) of a data source with shape S and
\* chunking C, its index one non-negative integer per dimension, is
\* answered 422 'Block index out of range' exactly when some coordinate d
\* is >= ceil(S[d]/C[d]); when every coordinate is below the bound the
\* block is returned; an out-of-range index is never answered 404.  (Of
\* requests that give no slice and no Accept header.)
C1_BlockRange ==
    (req.route \in {"tile_array", "blob"} /\ <<req.path>> \in DOMAIN tree
       /\ Source.kind = "reader" /\ Len(req.block) = Len(Source.shape)
       /\ req.slice = <<>> /\ req.accept = <<>>)
    => /\ (resp = BlockIndexOutOfRange) <=> CoordOutOfRange
       /\ CoordOutOfRange => resp.status # 404
       /\ ~CoordOutOfRange =>
             /\ resp.status = 200
             /\ resp.body.block = [d \in 1..Len(req.block) |-> <<req.block[d]>>]

-----------------------------------------------------------------------------
(* Tokens.                                                                 *)

Users == {"alice", "bob", "admin"}
NoUser == "None"

\* new_token(username) of authentication: a token never generated before
\* is stored for the user.
new_token(store, n, username) ==
    [token |-> n + 1, store |-> [t \in DOMAIN store \cup {n + 1} |->
                                    IF t = n + 1 THEN username ELSE store[t]]]

\* get_user_for_token(token) of authentication
get_user_for_token(store, token) ==
    IF token \in DOMAIN store THEN store[token] ELSE NoUser

\* revoke_token(token) of authentication
revoke_token(store, token) == [t \in DOMAIN store \ {token} |-> store[t]]

create_forbidden_admin_only(username, current_user) ==
    username # current_user /\ current_user = "admin"

\* if (username != current_user) and (current_user != "admin"): 403
create_forbidden(username, current_user) ==
    username # current_user /\ current_user # "admin"

\* if (username != current_user) and (current_user != "admin"): 403
delete_forbidden(username, current_user) ==
    username # current_user /\ current_user # "admin"

TokenRequest(op, user, username, token, pc, status) ==
    [op |-> op, user |-> user, username |-> username, token |-> token,
     pc |-> pc, status |-> status]

\* as if the handler awaited between the lookup and the revocation
EventLoopYields == TRUE

\* A coroutine may start when none holds the event loop: create_token and
\* delete_token are async def and await nothing, so each runs to its return.
EventLoopFree == loop = 0

\* create_token: one step of the event loop
CreateToken ==
    \E username \in Users, current_user \in Users :
        /\ EventLoopFree
        /\ Len(rq) < MaxRequests
        /\ IF create_forbidden(username, current_user)
           THEN /\ rq' = Append(rq, TokenRequest("create", current_user, username, 0, "done", 403))
                /\ UNCHANGED <<tokens, minted>>
           ELSE LET n == new_token(tokens, minted, username)
                IN  /\ tokens' = n.store
                    /\ minted' = n.token
                    /\ rq' = Append(rq, TokenRequest("create", current_user, username, n.token, "done", 200))
        /\ UNCHANGED <<loop, tree, req, resp, walk, searchVars>>

\* delete_token up to username = get_user_for_token(token.access_token)
DeleteTokenLookup ==
    \E token \in 1..MaxTokens, current_user \in Users :
        /\ EventLoopFree
        /\ Len(rq) < MaxRequests
        /\ rq' = Append(rq, TokenRequest("delete", current_user,
                                         get_user_for_token(tokens, token), token, "looked_up", 0))
        /\ loop' = Len(rq) + 1
        /\ UNCHANGED <<tokens, minted, tree, req, resp, walk, searchVars>>

\* delete_token from the authorization check to its return
DeleteTokenRevoke ==
    \E r \in 1..Len(rq) :
        /\ rq[r].pc = "looked_up"
        /\ IF delete_forbidden(rq[r].username, rq[r].user)
           THEN /\ rq' = [rq EXCEPT ![r].pc = "done", ![r].status = 403]
                /\ UNCHANGED tokens
           ELSE /\ tokens' = revoke_token(tokens, rq[r].token)
                /\ rq' = [rq EXCEPT ![r].pc = "done", ![r].status = 200]
        /\ loop' = 0
        /\ UNCHANGED <<minted, tree, req, resp, walk, searchVars>>

InitToken ==
    /\ tree = MakeTree(RootKeys, <<1>>, <<1>>)
    /\ NoData /\ NoToken /\ NoSearch

NextToken == CreateToken \/ DeleteTokenLookup \/ DeleteTokenRevoke

SpecToken == InitToken /\ [][NextToken]_vars

-----------------------------------------------------------------------------
(* C2: only the user or the admin mints or revokes the user's token.       *)

\* The requests that return in this step.
Returning(r) ==
    /\ r \in 1..Len(rq') /\ rq'[r].pc = "done"
    /\ (r > Len(rq) \/ rq[r].pc # "done")

MayChange(q) == q.username = q.user \/ q.user = "admin"

\* C2: a create_token(username) or delete_token(token owned by username)
\* by current_user changes the token store only if username = current_user
\* or current_user = "admin"; any other request is answered 403 and leaves
\* the store as it was.
C2_OwnerOrAdmin ==
    [][/\ \A r \in 1..Len(rq') :
             (Returning(r) /\ ~MayChange(rq'[r]))
                => rq'[r].status = 403 /\ tokens' = tokens /\ minted' = minted
       /\ (tokens' # tokens) => \E r \in 1..Len(rq') : Returning(r) /\ MayChange(rq'[r])
      ]_vars

\* alice asked to revoke bob's token, was answered 403, and the token is still valid.
C2_WitnessForbidden ==
    \E r \in 1..Len(rq) :
        /\ rq[r].op = "delete" /\ rq[r].user = "alice" /\ rq[r].username = "bob"
        /\ rq[r].status = 403
        /\ rq[r].token \in DOMAIN tokens /\ tokens[rq[r].token] = "bob"

-----------------------------------------------------------------------------
(* C3: token requests are linearizable.                                    *)

\* The requests run one at a time in the order given by ord, from the store
\* st with n tokens generated so far: do they get the responses recorded in
\* rq and leave the store as tokens?
RECURSIVE Replays(_, _, _, _)
Replays(ord, i, st, n) ==
    IF i > Len(rq) THEN st = tokens
    ELSE LET q == rq[ord[i]]
         IN  IF q.op = "create"
             THEN IF q.username # q.user /\ q.user # "admin"
                  THEN q.status = 403 /\ Replays(ord, i + 1, st, n)
                  ELSE /\ q.status = 200 /\ q.token = n + 1
                       /\ Replays(ord, i + 1,
                                  [t \in DOMAIN st \cup {n + 1} |->
                                      IF t = n + 1 THEN q.username ELSE st[t]], n + 1)
             ELSE LET owner == IF q.token \in DOMAIN st THEN st[q.token] ELSE NoUser
                  IN  IF owner # q.user /\ q.user # "admin"
                      THEN q.status = 403 /\ Replays(ord, i + 1, st, n)
                      ELSE /\ q.status = 200
                           /\ Replays(ord, i + 1, [t \in DOMAIN st \ {q.token} |-> st[t]], n)

Quiescent == \A r \in 1..Len(rq) : rq[r].pc = "done"

\* C3: once every request issued has returned, the token store and every
\* response are those of the same requests run one at a time in some order.
C3_Linearizable ==
    Quiescent => \E ord \in Permutations(1..Len(rq)) : Replays(ord, 1, <<>>, 0)

\* Two delete_token requests for the same token have both returned: one
\* revoked it, the other found it gone.
C3_WitnessTwoDeletes ==
    \E r1, r2 \in 1..Len(rq) :
        /\ r1 # r2
        /\ rq[r1].op = "delete" /\ rq[r2].op = "delete"
        /\ rq[r1].token = rq[r2].token
        /\ rq[r1].user = "alice" /\ rq[r2].user = "alice"
        /\ rq[r1].status = 200 /\ rq[r2].status = 403

-----------------------------------------------------------------------------
(* The listing routes.                                                     *)

\* keys[offset : offset + limit]
Window(keys, offset, limit) == SubSeq(keys, offset + 1, Min(offset + limit, Len(keys)))

EntriesBody(items, total) ==
    [kind |-> "entries", items |-> items, total |-> total, block |-> <<>>, slice |-> <<>>]

\* construct_entries_response(entry, route, path, offset, limit, ...) of
\* core: the window of the catalog's children and their count.
construct_entries_response(e, offset, limit) ==
    IF e.kind # "catalog" THEN [exc |-> "WrongTypeForRoute", body |-> NoBody]
    ELSE [exc |-> "none", body |-> EntriesBody(Window(e.keys, offset, limit), Len(e.keys))]

\* construct_catalogs_entries_response(path, offset, limit, ...) of server_utils
construct_catalogs_entries_response(t, path, offset, limit) ==
    LET e == get_entry(t, path)
    IN  IF e.exc # "none" THEN HTTPException(404, "No such entry.")
        ELSE LET c == construct_entries_response(e.entry, offset, limit)
             IN  IF c.exc # "none" THEN HTTPException(404, "This is a Data Source, not a Catalog.")
                 ELSE Ok(<<"application/json">>, rstrip(path), c.body)

\* The try block of entries and search: json_or_msgpack(request.headers,
\* construct_entries_response(...)) and its three except clauses.
EntriesResponse(e, path, offset, limit, accept) ==
    LET c == construct_entries_response(e, offset, limit)
    IN  IF c.exc = "WrongTypeForRoute" THEN HTTPException(404, "WrongTypeForRoute")
        ELSE LET j == json_or_msgpack(accept, path, c.body)
             IN  IF j.exc = "UnsupportedMediaTypes" THEN NotAcceptable(j.resp.supported)
                 ELSE j.resp

entries_swapped(t, path, offset, limit, accept) ==
    LET r == entry(t, path)
    IN  IF r.exc # "none" THEN DependencyResponse(r)
        ELSE EntriesResponse(r.entry, path, limit, offset, accept)

entries(t, path, offset, limit, accept) ==
    LET r == entry(t, path)
    IN  IF r.exc # "none" THEN DependencyResponse(r)
        ELSE EntriesResponse(r.entry, path, offset, limit, accept)

\* search with no filter given
search(t, path, offset, limit, accept) ==
    LET r == entry(t, path)
    IN  IF r.exc # "none" THEN DependencyResponse(r)
        ELSE EntriesResponse(r.entry, path, offset, limit, accept)

\* keys, entries and list_description of server.py
keys(t, path, offset, limit) == construct_catalogs_entries_response(t, path, offset, limit)

-----------------------------------------------------------------------------
(* SpecPage: listings of catalogs of every size, and a client that pages   *)
(* through the root catalog.                                               *)

Names == {<<"a">>, <<"b">>, <<"c">>, <<"d">>}

\* The ordered children a catalog may have: no key twice.
KeyLists ==
    {ks \in SeqsUpTo(Names, MaxChildren) : \A i, j \in 1..Len(ks) : i # j => ks[i] # ks[j]}

PagePaths == {<<>>, <<"/">>, <<"b">>, <<"a">>, <<"z">>}
PageAccepts == {<<>>, <<"application/unknown">>}

InitPage ==
    /\ \E ks \in KeyLists : tree = MakeTree(ks, <<1>>, <<1>>)
    /\ NoData /\ NoToken /\ NoSearch

Entries(Paths, Offsets, Limits, Accepts) ==
    \E path \in Paths, offset \in Offsets, limit \in Limits, accept \in Accepts :
        /\ req = NoRequest /\ walk = NoWalk
        /\ req' = Request("entries", path, <<>>, <<>>, accept, "", "None", offset, limit)
        /\ resp' = entries(tree, path, offset, limit, accept)
        /\ UNCHANGED <<tree, walk, tokenVars, searchVars>>

Search(Paths, Offsets, Limits, Accepts) ==
    \E path \in Paths, offset \in Offsets, limit \in Limits, accept \in Accepts :
        /\ req = NoRequest /\ walk = NoWalk
        /\ req' = Request("search", path, <<>>, <<>>, accept, "", "None", offset, limit)
        /\ resp' = search(tree, path, offset, limit, accept)
        /\ UNCHANGED <<tree, walk, tokenVars, searchVars>>

Keys(Paths, Offsets, Limits) ==
    \E path \in Paths, offset \in Offsets, limit \in Limits :
        /\ req = NoRequest /\ walk = NoWalk
        /\ req' = Request("keys", path, <<>>, <<>>, <<>>, "", "None", offset, limit)
        /\ resp' = keys(tree, path, offset, limit)
        /\ UNCHANGED <<tree, walk, tokenVars, searchVars>>

\* A client starts to page through the root catalog, size entries a page.
WalkStart ==
    \E size \in 1..MaxLimit :
        /\ req = NoRequest /\ walk = NoWalk
        /\ walk' = [active |-> TRUE, size |-> size, offset |-> 0, collected |-> <<>>, total |-> 0]
        /\ UNCHANGED <<tree, req, resp, tokenVars, searchVars>>

\* It requests the next page, keeps the entries and stops past the total.
WalkNext ==
    /\ walk.active
    /\ LET r == entries(tree, <<>>, walk.offset, walk.size, <<>>)
       IN  walk' = [walk EXCEPT !.collected = @ \o r.body.items,
                                !.offset = @ + walk.size,
                                !.total = r.body.total,
                                !.active = walk.offset + walk.size < r.body.total]
    /\ UNCHANGED <<tree, req, resp, tokenVars, searchVars>>

NextPage ==
    \/ Entries(PagePaths, 0..MaxOffset, 0..MaxLimit, PageAccepts)
    \/ Search(PagePaths, 0..MaxOffset, 0..MaxLimit, PageAccepts)
    \/ Keys(PagePaths, 0..MaxOffset, 0..MaxLimit)
    \/ Reply
    \/ WalkStart
    \/ WalkNext

SpecPage == InitPage /\ [][NextPage]_vars

-----------------------------------------------------------------------------
(* C4: pagination.                                                         *)

Listed == tree[IF rstrip(req.path) = <<>> THEN <<>> ELSE <<rstrip(req.path)>>]

IsListing ==
    /\ req.route \in {"entries", "search", "keys"}
    /\ (rstrip(req.path) = <<>> \/ <<rstrip(req.path)>> \in DOMAIN tree)
    /\ Listed.kind = "catalog"

\* C4: a listing of a catalog with N children returns exactly
\* min(limit, max(0, N - offset)) items, in the catalog's order, with the
\* total N; an offset >= N or a limit of 0 gives an empty window and no
\* error; successive pages hold every child exactly once, in order.
C4_Pagination ==
    /\ (IsListing /\ req.accept = <<>>) =>
          /\ resp.status = 200
          /\ resp.body.total = Len(Listed.keys)
          /\ Len(resp.body.items) = Min(req.limit, Max(0, Len(Listed.keys) - req.offset))
          /\ \A i \in 1..Len(resp.body.items) : resp.body.items[i] = Listed.keys[req.offset + i]
    /\ (~walk.active /\ walk.size > 0) => walk.collected = tree[<<>>].keys

\* A client has paged through a catalog of three children, two a page.
C4_WitnessPages ==
    /\ ~walk.active /\ walk.size = 2 /\ walk.offset = 4
    /\ Len(tree[<<>>].keys) = 3 /\ Len(walk.collected) = 3

-----------------------------------------------------------------------------
(* The search route's signature.                                           *)

DescriptorNames == {"text", "range", "key"}
FieldNames == {"text", "case_sensitive", "low"}

\* The declared type of a dataclass field.
FieldType(f) == IF f = "case_sensitive" THEN "bool" ELSE IF f = "low" THEN "int" ELSE "str"

\* The fields a query dataclass may declare, in order: no name twice.
FieldLists ==
    {fs \in SeqsUpTo(FieldNames, MaxFields) : \A i, j \in 1..Len(fs) : i # j => fs[i] # fs[j]}

\* inspect.Parameter(name=f"filter___{name}___{field.name}",
\*   default=Query(None, alias=f"filter[{name}][condition][{field.name}]"),
\*   annotation=Optional[field.type])
Parameter(name, field) ==
    [name |-> <<name, field>>, alias |-> <<name, field>>, optional |-> TRUE,
     type |-> FieldType(field)]

\* injected_parameter before its first assignment
Unbound == [name |-> <<>>, alias |-> <<>>, optional |-> FALSE, type |-> ""]

\* for field in dataclasses.fields(query): injected_parameter = inspect.Parameter(...)
RECURSIVE FieldLoop(_, _, _)
FieldLoop(name, fields, injected) ==
    IF fields = <<>> THEN injected
    ELSE FieldLoop(name, Tail(fields), Parameter(name, Head(fields)))

\* for name, query in name_to_query_type.items(): the loop over the fields,
\* and then parameters.append(injected_parameter)
RECURSIVE QueryLoop(_, _, _)
QueryLoop(reg, injected, parameters) ==
    IF reg = <<>> THEN [exc |-> "none", params |-> parameters]
    ELSE LET inj == FieldLoop(Head(reg).name, Head(reg).fields, injected)
         IN  IF inj = Unbound THEN [exc |-> "UnboundLocalError", params |-> <<>>]
             ELSE QueryLoop(Tail(reg), inj, Append(parameters, inj))

\* declare_search_route: the parameters added to the signature of search;
\* signature.replace refuses a parameter name given twice.
declare_search_route(reg) ==
    LET q == QueryLoop(reg, Unbound, <<>>)
    IN  IF q.exc # "none" THEN [state |-> q.exc, params |-> <<>>]
        ELSE IF \E i, j \in 1..Len(q.params) : i # j /\ q.params[i].name = q.params[j].name
             THEN [state |-> "ValueError", params |-> <<>>]
        ELSE [state |-> "declared", params |-> q.params]

\* The filters search is called with when the request gives a value for
\* filter[name][condition][field]: the parameters of the signature it matches.
filters(sig, name, field) ==
    SelectSeq(sig.params, LAMBDA prm : prm.alias = <<name, field>>)

\* name_to_query_type[name] = query: a new name is added last, a known name
\* keeps its place.
register(reg, name, fields) ==
    IF \E i \in 1..Len(reg) : reg[i].name = name
    THEN [i \in 1..Len(reg) |-> IF reg[i].name = name THEN [name |-> name, fields |-> fields] ELSE reg[i]]
    ELSE Append(reg, [name |-> name, fields |-> fields])

-----------------------------------------------------------------------------
(* SpecSearch: query types are registered, the search route is declared    *)
(* at startup, and searches with a filter follow.                          *)

InitSearch ==
    /\ tree = MakeTree(RootKeys, <<1>>, <<1>>)
    /\ NoData /\ NoToken /\ NoSearch

RegisterQuery ==
    \E name \in DescriptorNames, fields \in FieldLists :
        /\ signature = Undeclared
        /\ (Len(registry) < MaxDescriptors \/ \E i \in 1..Len(registry) : registry[i].name = name)
        /\ registry' = register(registry, name, fields)
        /\ registry' # registry
        /\ UNCHANGED <<signature, tree, req, resp, walk, tokenVars>>

DeclareSearchRoute ==
    /\ signature = Undeclared
    /\ signature' = declare_search_route(registry)
    /\ UNCHANGED <<registry, tree, req, resp, walk, tokenVars>>

SearchFilter ==
    \E name \in DescriptorNames, field \in FieldNames :
        /\ signature.state = "declared"
        /\ req = NoRequest
        /\ req' = Request("search", <<>>, <<>>, <<>>, <<>>, name, field, 0, 0)
        /\ resp' = Ok(<<"application/json">>, <<>>,
                      EntriesBody(filters(signature, name, field), 0))
        /\ UNCHANGED <<registry, signature, tree, walk, tokenVars>>

ReplySearch ==
    /\ req # NoRequest
    /\ req' = NoRequest
    /\ resp' = NoResponse
    /\ UNCHANGED <<registry, signature, tree, walk, tokenVars>>

NextSearch == RegisterQuery \/ DeclareSearchRoute \/ SearchFilter \/ ReplySearch

SpecSearch == InitSearch /\ [][NextSearch]_vars

-----------------------------------------------------------------------------
(* C5: every field of every registered descriptor is a search parameter.   *)

Declares(name, field) ==
    \E i \in 1..Len(registry) :
        /\ registry[i].name = name
        /\ \E k \in 1..Len(registry[i].fields) : registry[i].fields[k] = field

\* C5: once declare_search_route has run, the signature of search has, for
\* each registered descriptor and each of its fields, exactly one parameter
\* aliased filter[<name>][condition][<field>], optional and of the field's
\* type, and a value given for the field reaches the handler's filters.
C5_EveryFieldAccepted ==
    /\ signature # Undeclared =>
          \A name \in DescriptorNames, field \in FieldNames :
              Declares(name, field) =>
                  /\ Cardinality({k \in 1..Len(signature.params) :
                                     signature.params[k].alias = <<name, field>>}) = 1
                  /\ \A k \in 1..Len(signature.params) :
                         signature.params[k].alias = <<name, field>> =>
                             /\ signature.params[k].optional
                             /\ signature.params[k].type = FieldType(field)
    /\ (req # NoRequest /\ req.route = "search" /\ Declares(req.variable, req.coord))
          => resp.body.items = <<Parameter(req.variable, req.coord)>>

-----------------------------------------------------------------------------
(* The remaining routes.                                                   *)

MetadataBody == [kind |-> "metadata", items |-> <<>>, total |-> 0, block |-> <<>>, slice |-> <<>>]
CountBody(n) == [kind |-> "count", items |-> <<>>, total |-> n, block |-> <<>>, slice |-> <<>>]
DescriptionBody == [kind |-> "description", items |-> <<>>, total |-> 0, block |-> <<>>, slice |-> <<>>]

\* metadata of router.py: construct_resource stands in the try block,
\* json_or_msgpack after it.
metadata(t, path, accept) ==
    LET r == entry(t, path)
    IN  IF r.exc # "none" THEN DependencyResponse(r)
        ELSE LET j == json_or_msgpack(accept, LastSegment(rstrip(path)), MetadataBody)
             IN  IF j.exc # "none" THEN Fault(j.exc) ELSE j.resp

\* metadata of server.py
server_metadata(t, path) ==
    LET e == get_entry(t, rstrip(path))
    IN  IF e.exc = "KeyError" THEN HTTPException(404, "No such entry.")
        ELSE Ok(<<"application/json">>, rstrip(path), MetadataBody)

entries_count(t, path) ==
    LET e == get_entry(t, rstrip(path))
    IN  IF e.exc = "KeyError" THEN HTTPException(404, "No such entry.")
        ELSE IF e.entry.kind # "catalog"
             THEN HTTPException(404, "This is a Data Source, not a Catalog.")
        ELSE Ok(<<"application/json">>, rstrip(path), CountBody(Len(e.entry.keys)))

\* construct_datasource_response(path, key, datasource, ...) of server_utils
construct_datasource_response(path, key, e) ==
    IF e.kind # "reader" THEN HTTPException(404, "This is a Catalog, not a Data Source.")
    ELSE Ok(<<"application/json">>, key, DescriptionBody)

\* one_description: get_entry(path) stands in no try block
one_description(t, path) ==
    LET e == get_entry(t, path)
    IN  IF e.exc # "none" THEN Fault(e.exc)
        ELSE construct_datasource_response(path, LastSegment(path), e.entry)

\* entries and list_description of server.py
server_entries(t, path, offset, limit) ==
    construct_catalogs_entries_response(t, path, offset, limit)

list_description(t, path, offset, limit) ==
    construct_catalogs_entries_response(t, path, offset, limit)

-----------------------------------------------------------------------------
(* SpecRoutes: every route, on one tree, over the paths, names and Accept  *)
(* headers that tell the outcomes apart.                                   *)

RoutePaths ==
    {<<>>, <<"/">>, <<"a">>, <<"a", "/">>, <<"b">>, <<"b", "/", "a">>, <<"c">>, <<"a", "/", "c">>}

RouteAccepts ==
    {<<>>, <<Wildcard>>, <<OctetStream>>, <<"application/json">>,
     <<"application/unknown">>, <<"application/unknown", Wildcard>>}

RouteBlocks == {<<0>>, <<MaxCoord>>}
RouteSlices == {<<>>, <<Idx(MaxIdx)>>}
RouteVariables == {"temp", "humidity"}
RouteCoords == {"None", "time", "lat"}
RoutePages == {0, 1}

InitRoutes ==
    /\ tree = MakeTree(RootKeys, <<3>>, <<2>>)
    /\ NoData /\ NoToken /\ NoSearch

Answer(r, q) ==
    /\ req = NoRequest /\ walk = NoWalk
    /\ req' = r
    /\ resp' = q
    /\ UNCHANGED <<tree, walk, tokenVars, searchVars>>

Metadata ==
    \E path \in RoutePaths, accept \in RouteAccepts :
        Answer(Request("metadata", path, <<>>, <<>>, accept, "", "None", 0, 0),
               metadata(tree, path, accept))

FullArray ==
    \E path \in RoutePaths, slice \in RouteSlices, accept \in RouteAccepts :
        Answer(Request("full_array", path, <<>>, slice, accept, "", "None", 0, 0),
               full_array(tree, path, slice, accept))

TileVariable ==
    \E path \in RoutePaths, block \in RouteBlocks, slice \in RouteSlices, accept \in RouteAccepts :
        Answer(Request("tile_variable", path, block, slice, accept, "", "None", 0, 0),
               tile_variable(tree, path, block, slice, accept))

TileDataArray ==
    \E path \in RoutePaths, block \in RouteBlocks, coord \in RouteCoords,
       slice \in RouteSlices, accept \in RouteAccepts :
        Answer(Request("tile_data_array", path, block, slice, accept, "", coord, 0, 0),
               tile_data_array(tree, path, block, coord, slice, accept))

TileDataset ==
    \E path \in RoutePaths, variable \in RouteVariables, block \in RouteBlocks,
       coord \in RouteCoords, slice \in RouteSlices, accept \in RouteAccepts :
        Answer(Request("tile_dataset", path, block, slice, accept, variable, coord, 0, 0),
               tile_dataset(tree, path, variable, block, coord, slice, accept))

ServerMetadata ==
    \E path \in RoutePaths :
        Answer(Request("server_metadata", path, <<>>, <<>>, <<>>, "", "None", 0, 0),
               server_metadata(tree, path))

EntriesCount ==
    \E path \in RoutePaths :
        Answer(Request("entries_count", path, <<>>, <<>>, <<>>, "", "None", 0, 0),
               entries_count(tree, path))

OneDescription ==
    \E path \in RoutePaths :
        Answer(Request("one_description", path, <<>>, <<>>, <<>>, "", "None", 0, 0),
               one_description(tree, path))

ServerEntries ==
    \E path \in RoutePaths, offset \in RoutePages, limit \in RoutePages :
        Answer(Request("server_entries", path, <<>>, <<>>, <<>>, "", "None", offset, limit),
               server_entries(tree, path, offset, limit))

ListDescription ==
    \E path \in RoutePaths, offset \in RoutePages, limit \in RoutePages :
        Answer(Request("list_description", path, <<>>, <<>>, <<>>, "", "None", offset, limit),
               list_description(tree, path, offset, limit))

NextRoutes ==
    \/ Metadata
    \/ Entries(RoutePaths, RoutePages, RoutePages, RouteAccepts)
    \/ Search(RoutePaths, RoutePages, RoutePages, RouteAccepts)
    \/ TileArray(RoutePaths, {"tuple"}, RouteBlocks, RouteSlices, RouteAccepts)
    \/ FullArray
    \/ TileVariable
    \/ TileDataArray
    \/ TileDataset
    \/ ServerMetadata
    \/ EntriesCount
    \/ Keys(RoutePaths, RoutePages, RoutePages)
    \/ ServerEntries
    \/ ListDescription
    \/ OneDescription
    \/ Blob(RoutePaths, Forms, RouteBlocks, RouteAccepts)
    \/ Reply

SpecRoutes == InitRoutes /\ [][NextRoutes]_vars

-----------------------------------------------------------------------------
(* The entry a request's path names.                                       *)

\* The path without trailing separators, as its segments; the empty path
\* is the root.
Norm(p) == IF rstrip(p) = <<>> THEN <<>> ELSE split(rstrip(p))

Exists == Norm(req.path) \in DOMAIN tree
Named == tree[Norm(req.path)]

CatalogRoutes ==
    {"entries", "search", "keys", "server_entries", "list_description", "entries_count"}
DataRoutes ==
    {"tile_array", "full_array", "tile_variable", "tile_data_array", "tile_dataset",
     "blob", "one_description"}
ArrayRoutes ==
    {"tile_array", "full_array", "tile_variable", "tile_data_array", "tile_dataset", "blob"}
NegotiatedListings == {"metadata", "entries", "search"}

\* The entry exists and is of the variant the route works on.
RightVariant ==
    /\ Exists
    /\ req.route \in CatalogRoutes => Named.kind = "catalog"
    /\ req.route \in DataRoutes => Named.kind = "reader"

-----------------------------------------------------------------------------
(* C6: no error of the taxonomy leaves a handler untranslated.             *)

\* C6: every request is answered 200 or with one of the structured client
\* errors 400, 403, 404, 406, 422: no entry-not-found, wrong-type, index,
\* unknown-component or unsupported-media-type condition leaves a handler
\* as an untranslated fault.
C6_NoOpaqueFault ==
    req # NoRequest => resp.status \in {200, 400, 403, 404, 406, 422}

-----------------------------------------------------------------------------
(* C7: the 422 of an unknown component names the component missing.        *)

VariableMissing == req.route = "tile_dataset" /\ req.variable \notin Variables
CoordMissing == req.coord # "None" /\ req.coord \notin Coords

\* C7: on tile_dataset and tile_data_array, a request naming a variable or
\* coordinate the data source lacks is answered 422 naming the component
\* that is missing: the variable when the variable does not exist (with or
\* without a coord), 'No such coordinate <coord>' when the variable exists
\* and the coordinate does not; never 'Block index out of range'.
C7_NamesMissingComponent ==
    (req # NoRequest /\ req.route \in {"tile_dataset", "tile_data_array"} /\ RightVariant)
    => /\ VariableMissing =>
             /\ resp.status = 422
             /\ resp.detail = "No such variable" /\ resp.id = <<req.variable>>
       /\ (~VariableMissing /\ CoordMissing) =>
             /\ resp.status = 422
             /\ resp.detail = "No such coordinate" /\ resp.id = <<req.coord>>
       /\ (VariableMissing \/ CoordMissing) => resp # BlockIndexOutOfRange

-----------------------------------------------------------------------------
(* C8: negotiation falls back to application/octet-stream.                 *)

\* The header is absent, or lists the wildcard first or after types that
\* are not supported.
FallsBack(accept) ==
    \/ accept = <<>>
    \/ \E k \in 1..Len(accept) :
          /\ accept[k] = Wildcard
          /\ \A j \in 1..(k - 1) : accept[j] \notin Range(ArrayMediaTypes)

\* C8: an array response whose Accept header is absent, is */*, or lists
\* */* after unsupported types is serialized as, and labelled,
\* application/octet-stream.
C8_WildcardFallsBack ==
    (req # NoRequest /\ req.route \in ArrayRoutes /\ RightVariant
       /\ resp.status \notin {404, 422} /\ FallsBack(req.accept))
    => resp.status = 200 /\ resp.media = <<OctetStream>>

-----------------------------------------------------------------------------
(* C9: no acceptable media type is answered 406.                           *)

SupportedFor(route) == IF route \in ArrayRoutes THEN ArrayMediaTypes ELSE EntryMediaTypes

\* The header lists types, none of them supported and none the wildcard.
NoneAcceptable ==
    /\ req.accept # <<>>
    /\ \A k \in 1..Len(req.accept) :
          /\ req.accept[k] # Wildcard
          /\ req.accept[k] \notin Range(SupportedFor(req.route))

\* C9: on metadata, entries, search, the array routes and blob, a request
\* whose acceptable media types do not intersect the supported ones is
\* answered 406 with the list of the supported types, and no body.
C9_NotAcceptable ==
    (req # NoRequest /\ req.route \in ArrayRoutes \cup NegotiatedListings /\ RightVariant
       /\ resp.status \notin {404, 422} /\ NoneAcceptable)
    => resp = NotAcceptable(SupportedFor(req.route))

-----------------------------------------------------------------------------
(* C10: no entry, or an entry of the wrong variant, is answered 404.       *)

\* C10: a path that names no entry is answered 404, and so is a path that
\* names a data source on a listing or count route or a catalog on a data
\* route; trailing '/' are stripped and the empty path is the root catalog.
C10_NotFound ==
    req # NoRequest =>
       /\ ~Exists => resp.status = 404
       /\ (Exists /\ ~RightVariant) => resp.status = 404
       /\ (req.route = "entries_count" /\ RightVariant) =>
             /\ resp.status = 200
             /\ resp.body.total = Len(Named.keys)

-----------------------------------------------------------------------------
(* C11: the order of block-address validation.                             *)

IsBlockFetch == req.route \in {"tile_array", "blob"}

\* The request names a data source and its block parameter is an index.
IndexOnSource ==
    /\ IsBlockFetch /\ req.form \in Forms
    /\ <<req.path>> \in DOMAIN tree /\ Source.kind = "reader"

DimensionMismatch == IndexOnSource /\ Len(req.block) # Len(Source.shape)

ClientError == resp.status \in 400..499

\* C11: block-address validation runs in the order syntax, dimensionality,
\* range, slice: a malformed block parameter is answered 400 (on tile_array
\* once the path has resolved to a data source); a well-formed index whose
\* number of coordinates differs from the data source's number of
\* dimensions is answered with a client error other than the 422 'Block
\* index out of range' of out-of-range coordinates and slices, also when a
\* coordinate is out of range as well.  (Of requests without an Accept
\* header.)
C11_ValidationOrder ==
    (IsBlockFetch /\ req.accept = <<>>) =>
       /\ (req.form \in Malformed
             /\ (req.route = "blob"
                   \/ (<<req.path>> \in DOMAIN tree /\ Source.kind = "reader")))
             => resp.status = 400
       /\ DimensionMismatch => (ClientError /\ resp # BlockIndexOutOfRange)

====
